---------------------------- MODULE Spec2Model ----------------------------
(***************************************************************************)
(* beautiful-thirteen: the count of 13-digit base-13 numbers whose first   *)
(* six digits and last six digits have the same sum (src/src/beautiful.hpp)*)
(*                                                                         *)
(* The program's values are C++ int (32 bit) and int64_t.  TLC's own       *)
(* integers are 32 bit, so an int64_t value is modelled as an exact        *)
(* integer held in sign-magnitude form, mag being its little-endian limbs  *)
(* in base LimbBase; whether it fits the C++ type is then a predicate      *)
(* (Fits), and a signed overflow, which C++ leaves undefined, is recorded  *)
(* in the flag ub and makes the returned value a free choice (Outcomes).   *)
(***************************************************************************)
EXTENDS Integers, Sequences, FiniteSets, TLC

VARIABLES
    pc,        \* position of the running specification
    table,     \* build_ways_lookup_table: the local array being filled
    s,         \* loop index of build_ways_lookup_table / count_beautiful_numbers
    kWays,     \* the constexpr lookup table (<<>> until it is initialised)
    total,     \* count_beautiful_numbers: the accumulator
    returned,  \* the values count_beautiful_numbers has returned, in call order
    sum_,      \* ways_for_sum: the argument
    k,         \* ways_for_sum: the loop index
    sign,      \* ways_for_sum: the alternating sign
    result,    \* ways_for_sum: the accumulator, then the returned value
    n_,        \* binomial_n_5: the argument
    ret,       \* binomial_n_5: the returned value
    ub         \* TRUE once a signed overflow has happened

vars == <<pc, table, s, kWays, total, returned, sum_, k, sign, result, n_, ret, ub>>

---------------------------------------------------------------------------
(* Bounds: the input ranges and the number of calls.                       *)

MaxCalls == 3     \* calls of count_beautiful_numbers in one run
SumBelow == 20    \* ways_for_sum is applied to every sum_ in -SumBelow..SumAbove
SumAbove == 200
NBelow   == 30    \* binomial_n_5 is applied to every n_ in -NBelow..NAbove
NAbove   == 90

---------------------------------------------------------------------------
(* Exact integers: [neg |-> BOOLEAN, mag |-> limbs], zero being            *)
(* [neg |-> FALSE, mag |-> <<>>]; mag has no leading (last) zero limb.     *)

LimbBase == 10 ^ 4

RECURSIVE Limbs(_)
Limbs(n) == IF n = 0 THEN <<>> ELSE <<n % LimbBase>> \o Limbs(n \div LimbBase)

RECURSIVE Trim(_)
Trim(a) == IF a = <<>> THEN <<>>
           ELSE IF a[Len(a)] = 0 THEN Trim(SubSeq(a, 1, Len(a) - 1))
           ELSE a

Limb0(a) == IF a = <<>> THEN 0 ELSE Head(a)
Rest(a)  == IF a = <<>> THEN <<>> ELSE Tail(a)

RECURSIVE MagAddC(_, _, _)
MagAddC(a, b, c) ==
    IF a = <<>> /\ b = <<>>
    THEN (IF c = 0 THEN <<>> ELSE <<c>>)
    ELSE LET x == Limb0(a) + Limb0(b) + c
         IN  <<x % LimbBase>> \o MagAddC(Rest(a), Rest(b), x \div LimbBase)

MagAdd(a, b) == MagAddC(a, b, 0)

\* -1, 0, 1 as a < b, a = b, a > b
RECURSIVE MagCmpFrom(_, _, _)
MagCmpFrom(a, b, i) ==
    IF i = 0 THEN 0
    ELSE IF a[i] < b[i] THEN -1
    ELSE IF a[i] > b[i] THEN 1
    ELSE MagCmpFrom(a, b, i - 1)

MagCmp(a, b) ==
    IF Len(a) < Len(b) THEN -1
    ELSE IF Len(a) > Len(b) THEN 1
    ELSE MagCmpFrom(a, b, Len(a))

\* a - b for a >= b
RECURSIVE MagSubB(_, _, _)
MagSubB(a, b, br) ==
    IF a = <<>> THEN <<>>
    ELSE LET x == Limb0(a) - Limb0(b) - br
         IN  IF x < 0
             THEN <<x + LimbBase>> \o MagSubB(Rest(a), Rest(b), 1)
             ELSE <<x>> \o MagSubB(Rest(a), Rest(b), 0)

MagSub(a, b) == Trim(MagSubB(a, b, 0))

\* a times one limb d (0 <= d < LimbBase)
RECURSIVE MagMulLimb(_, _, _)
MagMulLimb(a, d, c) ==
    IF a = <<>>
    THEN (IF c = 0 THEN <<>> ELSE <<c>>)
    ELSE LET x == Head(a) * d + c
         IN  <<x % LimbBase>> \o MagMulLimb(Tail(a), d, x \div LimbBase)

RECURSIVE MagMul(_, _)
MagMul(a, b) ==
    IF a = <<>> \/ b = <<>> THEN <<>>
    ELSE Trim(MagAdd(MagMulLimb(a, Head(b), 0), <<0>> \o MagMul(a, Tail(b))))

\* a divided by a small d > 0 (d * LimbBase within TLC's integers):
\* long division from the top limb; [q |-> quotient, r |-> remainder]
RECURSIVE MagDivFrom(_, _, _, _)
MagDivFrom(a, d, i, r) ==
    IF i = 0 THEN [q |-> <<>>, r |-> r]
    ELSE LET x    == r * LimbBase + a[i]
             rest == MagDivFrom(a, d, i - 1, x % d)
         IN  [q |-> Append(rest.q, x \div d), r |-> rest.r]

MagDivSmall(a, d) ==
    LET qr == MagDivFrom(a, d, Len(a), 0)
    IN  [q |-> Trim(qr.q), r |-> qr.r]

Z(neg, mag) == [neg |-> neg /\ mag # <<>>, mag |-> mag]

Zero == Z(FALSE, <<>>)

\* an int as an exact integer
ZInt(n) == IF n < 0 THEN Z(TRUE, Limbs(-n)) ELSE Z(FALSE, Limbs(n))

ZNeg(x) == Z(~x.neg, x.mag)

\* x + y
ZAdd(x, y) ==
    IF x.neg = y.neg THEN Z(x.neg, MagAdd(x.mag, y.mag))
    ELSE IF MagCmp(x.mag, y.mag) >= 0 THEN Z(x.neg, MagSub(x.mag, y.mag))
    ELSE Z(y.neg, MagSub(y.mag, x.mag))

\* x * y
ZMul(x, y) == Z(x.neg # y.neg, MagMul(x.mag, y.mag))

\* x / d for an int d > 0, truncating toward zero as C++ does
ZDivSmall(x, d) == Z(x.neg, MagDivSmall(x.mag, d).q)

\* the magnitude of x % d
ZRemSmall(x, d) == MagDivSmall(x.mag, d).r

\* x < y, x <= y
ZLess(x, y) ==
    IF x.neg # y.neg THEN x.neg
    ELSE IF x.neg THEN MagCmp(x.mag, y.mag) > 0
    ELSE MagCmp(x.mag, y.mag) < 0

ZLeq(x, y) == x = y \/ ZLess(x, y)

\* b^e for ints b and e >= 0, by squaring
RECURSIVE ZPow(_, _)
ZPow(b, e) ==
    IF e = 0 THEN ZInt(1)
    ELSE LET h == ZPow(b, e \div 2)
         IN  IF e % 2 = 0 THEN ZMul(h, h) ELSE ZMul(ZMul(h, h), ZInt(b))

---------------------------------------------------------------------------
(* The C++ integer types.                                                  *)

\* int
IntBits == 32

\* int64_t
Int64Bits == 64

\* 2^63: the first value above int64_t
Int64Lim == ZPow(2, Int64Bits - 1)

\* x is representable in int64_t
FitsInt64(x) == ZLeq(ZNeg(Int64Lim), x) /\ ZLess(x, Int64Lim)

\* Representative values a build may produce once signed overflow has
\* happened (undefined behaviour): any int64_t at all.
UBOutcomes ==
    { ZNeg(Int64Lim), ZInt(-1), Zero, ZInt(1), ZAdd(Int64Lim, ZInt(-1)) }

\* what a function hands back: its value, or anything after an overflow
Outcomes(v, overflowed) == IF overflowed THEN UBOutcomes ELSE {v}

---------------------------------------------------------------------------
(* Constants of the program.                                               *)

kDigits == 6

kBase == 13

kMaxSum == (kBase - 1) * kDigits

\* kBinom6 with a mistyped entry
kBinom6_typo == <<1, 6, 15, 20, 10, 6, 1>>

kBinom6 == <<1, 6, 15, 20, 15, 6, 1>>

---------------------------------------------------------------------------
(* binomial_n_5                                                            *)

\* the early return taken at n = 5 as well
binomial_early_return_le(n) == n <= 5

binomial_early_return(n) == n < 5

\* m, m*(m-1), m*(m-1)*(m-2), ... : the left-to-right products of line 63
RECURSIVE binomial_products(_, _)
binomial_products(n, j) ==
    IF j = 0 THEN <<ZInt(n)>>
    ELSE LET prev == binomial_products(n, j - 1)
         IN  Append(prev, ZMul(prev[Len(prev)], ZInt(n - j)))

binomial_numerator(n) == binomial_products(n, 4)[5]

binomial_divisor == 120

binomial_overflows(n) ==
    /\ ~binomial_early_return(n)
    /\ \E i \in 1..5 : ~FitsInt64(binomial_products(n, 4)[i])

binomial_n_5(n) ==
    IF binomial_early_return(n) THEN Zero
    ELSE ZDivSmall(binomial_numerator(n), binomial_divisor)

---------------------------------------------------------------------------
(* ways_for_sum: the loop of lines 75..89 over a frame [k, sign, result,   *)
(* ub] of its locals.                                                      *)

ways_frame0 == [k |-> 0, sign |-> 1, result |-> Zero, ub |-> FALSE]

\* the loop stopping one pass short
ways_loop_cond_lt(kk) == kk < kDigits

\* line 75: k <= kDigits
ways_loop_cond(kk) == kk <= kDigits

\* a digit taken to overflow at kBase - 1 instead of kBase
ways_arg_base_minus_one(sum, kk) == sum - (kBase - 1) * kk + 5

\* line 77
ways_arg(sum, kk) == sum - kBase * kk + 5

\* the early exit taken at arg = 5 as well
ways_break_le(sum, kk) == ways_arg(sum, kk) <= 5

\* line 80: the early exit
ways_break(sum, kk) == ways_arg(sum, kk) < 5

\* line 85: sign * kBinom6[k], then that times binomial_n_5(arg)
ways_coeff(f) == ZMul(ZInt(f.sign), ZInt(kBinom6[f.k + 1]))

ways_term(sum, f) == ZMul(ways_coeff(f), binomial_n_5(ways_arg(sum, f.k)))

\* the loop body without the sign flip of line 88
ways_body_no_flip(sum, f) ==
    [k      |-> f.k + 1,
     sign   |-> f.sign,
     result |-> ZAdd(f.result, ways_term(sum, f)),
     ub     |-> f.ub]

\* one pass through the loop body, lines 85..88 and ++k
ways_body(sum, f) ==
    LET term == ways_term(sum, f)
        acc  == ZAdd(f.result, term)
    IN  [k      |-> f.k + 1,
         sign   |-> -f.sign,
         result |-> acc,
         ub     |-> \/ f.ub
                    \/ binomial_overflows(ways_arg(sum, f.k))
                    \/ ~FitsInt64(ways_coeff(f))
                    \/ ~FitsInt64(term)
                    \/ ~FitsInt64(acc)]

ways_continues(sum, f) == ways_loop_cond(f.k) /\ ~ways_break(sum, f.k)

RECURSIVE ways_run(_, _)
ways_run(sum, f) ==
    IF ways_continues(sum, f) THEN ways_run(sum, ways_body(sum, f)) ELSE f

\* the value ways_for_sum computes, and whether computing it overflowed
ways_for_sum(sum) == ways_run(sum, ways_frame0).result

ways_overflows(sum) == ways_run(sum, ways_frame0).ub

---------------------------------------------------------------------------
(* build_ways_lookup_table and count_beautiful_numbers                     *)

\* line 97: std::array<int64_t, kMaxSum + 1> table{}
table0 == [i \in 1..(kMaxSum + 1) |-> Zero]

\* the build loop stopping before the last entry
build_loop_cond_lt(i) == i < kMaxSum

\* line 99: s <= kMaxSum
build_loop_cond(i) == i <= kMaxSum

\* the loop of the header comment, "FOR S = 1..72"
count_from_one == 1

\* line 111: int s = 0
count_first == 0

\* line 111: s <= kMaxSum
count_loop_cond(i) == i <= kMaxSum

\* the term without the middle digit's factor
count_scaled_no_middle(w) == w

\* line 112: kBase * kWays[s], then that times kWays[s]
count_scaled(w) == ZMul(ZInt(kBase), w)

count_term(w) == ZMul(count_scaled(w), w)

---------------------------------------------------------------------------
(* The program: kWays is initialised by build_ways_lookup_table (constant  *)
(* evaluation, before anything runs), then count_beautiful_numbers is      *)
(* called, up to MaxCalls times.                                           *)

Init ==
    /\ pc = "build"
    /\ table = table0
    /\ s = 0
    /\ kWays = <<>>
    /\ total = Zero
    /\ returned = <<>>
    /\ sum_ = 0
    /\ k = 0
    /\ sign = 1
    /\ result = Zero
    /\ n_ = 0
    /\ ret = Zero
    /\ ub = FALSE

\* lines 99..101: table[s] = ways_for_sum(s)
BuildIterate ==
    /\ pc = "build"
    /\ build_loop_cond(s)
    /\ \E v \in Outcomes(ways_for_sum(s), ub \/ ways_overflows(s)) :
           table' = [table EXCEPT ![s + 1] = v]
    /\ s' = s + 1
    /\ ub' = (ub \/ ways_overflows(s))
    /\ UNCHANGED <<pc, kWays, total, returned, sum_, k, sign, result, n_, ret>>

\* lines 102 and 105: return table; kWays = ...
BuildReturn ==
    /\ pc = "build"
    /\ ~build_loop_cond(s)
    /\ kWays' = table
    /\ pc' = "idle"
    /\ UNCHANGED <<table, s, total, returned, sum_, k, sign, result, n_, ret, ub>>

\* lines 107..111: a call begins, total = 0, s = 0
CountEnter ==
    /\ pc = "idle"
    /\ Len(returned) < MaxCalls
    /\ total' = Zero
    /\ s' = count_first
    /\ pc' = "count"
    /\ UNCHANGED <<table, kWays, returned, sum_, k, sign, result, n_, ret, ub>>

\* line 112: total += kBase * kWays[s] * kWays[s]
CountIterate ==
    /\ pc = "count"
    /\ count_loop_cond(s)
    /\ LET w   == kWays[s + 1]
           acc == ZAdd(total, count_term(w))
       IN  /\ total' = acc
           /\ ub' = \/ ub
                    \/ ~FitsInt64(count_scaled(w))
                    \/ ~FitsInt64(count_term(w))
                    \/ ~FitsInt64(acc)
    /\ s' = s + 1
    /\ UNCHANGED <<pc, table, kWays, returned, sum_, k, sign, result, n_, ret>>

\* line 115: return total
CountReturn ==
    /\ pc = "count"
    /\ ~count_loop_cond(s)
    /\ \E v \in Outcomes(total, ub) : returned' = Append(returned, v)
    /\ pc' = "idle"
    /\ UNCHANGED <<table, s, kWays, total, sum_, k, sign, result, n_, ret, ub>>

Next ==
    \/ BuildIterate
    \/ BuildReturn
    \/ CountEnter
    \/ CountIterate
    \/ CountReturn

Spec == Init /\ [][Next]_vars

---------------------------------------------------------------------------
(* ways_for_sum on its own, one loop pass per step, applied to every       *)
(* argument in -SumBelow..SumAbove.                                        *)

InitWays ==
    /\ pc = "ways"
    /\ sum_ \in (-SumBelow)..SumAbove
    /\ k = ways_frame0.k
    /\ sign = ways_frame0.sign
    /\ result = ways_frame0.result
    /\ ub = ways_frame0.ub
    /\ table = table0
    /\ s = 0
    /\ kWays = <<>>
    /\ total = Zero
    /\ returned = <<>>
    /\ n_ = 0
    /\ ret = Zero

ways_frame == [k |-> k, sign |-> sign, result |-> result, ub |-> ub]

ways_return ==
    /\ result' \in Outcomes(result, ub)
    /\ pc' = "ways_done"
    /\ UNCHANGED <<table, s, kWays, total, returned, sum_, k, sign, n_, ret, ub>>

\* lines 85..88: the term is added, the sign flips, ++k
WaysIterate ==
    /\ pc = "ways"
    /\ ways_continues(sum_, ways_frame)
    /\ LET f == ways_body(sum_, ways_frame)
       IN  /\ k' = f.k
           /\ sign' = f.sign
           /\ result' = f.result
           /\ ub' = f.ub
    /\ UNCHANGED <<pc, table, s, kWays, total, returned, sum_, n_, ret>>

\* lines 80..82 then 91: the early exit
WaysBreak ==
    /\ pc = "ways"
    /\ ways_loop_cond(k)
    /\ ways_break(sum_, k)
    /\ ways_return

\* line 75 false then 91: the loop ran all its passes
WaysLoopEnd ==
    /\ pc = "ways"
    /\ ~ways_loop_cond(k)
    /\ ways_return

NextWays ==
    \/ WaysIterate
    \/ WaysBreak
    \/ WaysLoopEnd

SpecWays == InitWays /\ [][NextWays]_vars

---------------------------------------------------------------------------
(* binomial_n_5 on its own, applied to every argument in -NBelow..NAbove.  *)

InitBinomial ==
    /\ pc = "binomial"
    /\ n_ \in (-NBelow)..NAbove
    /\ ret = Zero
    /\ ub = FALSE
    /\ table = table0
    /\ s = 0
    /\ kWays = <<>>
    /\ total = Zero
    /\ returned = <<>>
    /\ sum_ = 0
    /\ k = 0
    /\ sign = 1
    /\ result = Zero

\* lines 58..60
BinomialEarlyReturn ==
    /\ pc = "binomial"
    /\ binomial_early_return(n_)
    /\ ret' = binomial_n_5(n_)
    /\ pc' = "binomial_done"
    /\ UNCHANGED <<table, s, kWays, total, returned, sum_, k, sign, result, n_, ub>>

\* lines 62..63
BinomialCompute ==
    /\ pc = "binomial"
    /\ ~binomial_early_return(n_)
    /\ ret' \in Outcomes(binomial_n_5(n_), binomial_overflows(n_))
    /\ ub' = binomial_overflows(n_)
    /\ pc' = "binomial_done"
    /\ UNCHANGED <<table, s, kWays, total, returned, sum_, k, sign, result, n_>>

NextBinomial ==
    \/ BinomialEarlyReturn
    \/ BinomialCompute

SpecBinomial == InitBinomial /\ [][NextBinomial]_vars

---------------------------------------------------------------------------
(* Reference values, computed without the inclusion-exclusion formula.     *)

Digit == 0..(kBase - 1)

\* the function q on 1..n as a sequence with its elements worked out
AsSeq(q, n) == SubSeq(q, 1, n)

\* the sum of the ints q[lo..hi], and of the exact integers q[lo..hi]
RECURSIVE SumRange(_, _, _)
SumRange(q, lo, hi) ==
    IF lo > hi THEN 0
    ELSE IF lo = hi THEN q[lo]
    ELSE LET mid == (lo + hi) \div 2
         IN  SumRange(q, lo, mid) + SumRange(q, mid + 1, hi)

RECURSIVE ZSumRange(_, _, _)
ZSumRange(q, lo, hi) ==
    IF lo > hi THEN Zero
    ELSE IF lo = hi THEN q[lo]
    ELSE LET mid == (lo + hi) \div 2
         IN  ZAdd(ZSumRange(q, lo, mid), ZSumRange(q, mid + 1, hi))

ZSum(q) == ZSumRange(q, 1, Len(q))

\* From the numbers of j-digit sequences per digit sum (prev[t + 1] for sum
\* t) to the numbers of (j+1)-digit sequences: the added digit d leaves sum
\* t - d for the others.
TuplesExtend(prev) ==
    AsSeq([i \in 1..(kMaxSum + 1) |->
              LET lo == IF i - (kBase - 1) < 1 THEN 1 ELSE i - (kBase - 1)
              IN  SumRange(prev, lo, i)],
          kMaxSum + 1)

RECURSIVE TuplesBySum(_)
TuplesBySum(j) ==
    IF j = 0
    THEN AsSeq([i \in 1..(kMaxSum + 1) |-> IF i = 1 THEN 1 ELSE 0], kMaxSum + 1)
    ELSE LET prev == TuplesBySum(j - 1)
         IN  IF Len(prev) = kMaxSum + 1 THEN TuplesExtend(prev) ELSE <<>>

\* TrueWays[S + 1]: the number of 6-tuples of digits with sum S
TrueWays == TuplesBySum(kDigits)

\* Sequences of digits by (sum of the left digits) - (sum of the right
\* digits): prev[g + kMaxSum + 1] sequences have difference g.  A left digit
\* d raises the difference by d, a right digit lowers it by d.
DiffWidth == 2 * kMaxSum + 1

DiffExtend(prev, left) ==
    AsSeq([i \in 1..DiffWidth |->
              LET lo == IF left THEN i - (kBase - 1) ELSE i
                  hi == IF left THEN i ELSE i + (kBase - 1)
              IN  ZSumRange(prev,
                            IF lo < 1 THEN 1 ELSE lo,
                            IF hi > DiffWidth THEN DiffWidth ELSE hi)],
          DiffWidth)

\* after j digits: the first kDigits are left digits, the rest right digits
\* (Len(prev) is asked first so that the previous row is worked out before
\* the next one is begun)
RECURSIVE DiffRows(_)
DiffRows(j) ==
    IF j = 0
    THEN AsSeq([i \in 1..DiffWidth |-> IF i = kMaxSum + 1 THEN ZInt(1) ELSE Zero],
               DiffWidth)
    ELSE LET prev == DiffRows(j - 1)
         IN  IF Len(prev) = DiffWidth THEN DiffExtend(prev, j <= kDigits) ELSE <<>>

\* the number of 13-digit sequences with equal left and right sums: the
\* 12 outer digits with difference 0, times the free middle digit
TrueBeautiful ==
    ZMul(ZInt(Cardinality(Digit)), DiffRows(2 * kDigits)[kMaxSum + 1])

\* the sum over S of 13 * N(S)^2 for the true N
TrueSquares ==
    ZSum(AsSeq([i \in 1..(kMaxSum + 1) |->
                   ZMul(ZInt(kBase), ZMul(ZInt(TrueWays[i]), ZInt(TrueWays[i])))],
               kMaxSum + 1))

\* <<C(n,0), ..., C(n,5)>>, from the row of n - 1 by Pascal's rule when n
\* is odd and from the row of n/2 by Vandermonde's convolution
\* C(2h, j) = sum over i of C(h, i) * C(h, j - i) when n is even
PascalStep(prev) ==
    AsSeq([j \in 1..6 |-> IF j = 1 THEN 1 ELSE prev[j - 1] + prev[j]], 6)

PascalDouble(half) ==
    AsSeq([j \in 1..6 |->
              SumRange(AsSeq([i \in 1..j |-> half[i] * half[j + 1 - i]], j), 1, j)],
          6)

RECURSIVE PascalRow(_)
PascalRow(n) ==
    IF n = 0 THEN <<1, 0, 0, 0, 0, 0>>
    ELSE LET prev == PascalRow(IF n % 2 = 0 THEN n \div 2 ELSE n - 1)
         IN  IF Len(prev) # 6 THEN <<>>
             ELSE IF n % 2 = 0 THEN PascalDouble(prev)
             ELSE PascalStep(prev)

Choose5(n) == PascalRow(n)[6]

---------------------------------------------------------------------------
(* Properties.                                                             *)

Sums == 0..kMaxSum

C2_WaysIsTheTrueCount ==
    pc = "ways_done" /\ sum_ \in Sums =>
        /\ result = ZInt(TrueWays[sum_ + 1])
        /\ (sum_ = 0 \/ sum_ = kMaxSum => result = ZInt(1))

C2_Witness ==
    /\ pc = "ways_done" /\ sum_ = kMaxSum /\ result = ZInt(1) /\ k = kDigits
    /\ TrueWays[kMaxSum + 1] = 1

\* C3: binomial_n_5 returns a value for every n with no overflow on the
\* way: 0 when n < 5 (negative n included), and C(n,5) when n >= 5, the
\* product n(n-1)(n-2)(n-3)(n-4) being a multiple of 120; it returns 1, 6,
\* 21 for n = 5, 6, 7.
C3_BinomialIsChoose5 ==
    pc = "binomial_done" =>
        /\ ~ub
        /\ ret.neg \in BOOLEAN /\ ret.mag \in Seq(0..(LimbBase - 1))
        /\ n_ < 5 => ret = Zero
        /\ n_ >= 5 =>
            /\ ret = ZInt(Choose5(n_))
            /\ ZRemSmall(binomial_numerator(n_), binomial_divisor) = 0
        /\ n_ = 5 => ret = ZInt(1)
        /\ n_ = 6 => ret = ZInt(6)
        /\ n_ = 7 => ret = ZInt(21)

C3_Witness ==
    pc = "binomial_done" /\ n_ = kMaxSum + 5 /\ ret = ZInt(Choose5(kMaxSum + 5))

\* C4: ways_for_sum(S) >= 0 for S in 0..72 and ways_for_sum(S) = 0 for
\* every other S, below 0 or above 72.
C4_WaysSignAndSupport ==
    pc = "ways_done" =>
        IF sum_ \in Sums THEN ZLeq(Zero, result) ELSE result = Zero

C4_Witness ==
    pc = "ways_done" /\ sum_ > kMaxSum + kDigits /\ k = kDigits + 1 /\ result = Zero

\* C5: ways_for_sum(S) = ways_for_sum(72 - S) for every S in 0..72, so every
\* entry written to the table equals the result for the mirrored sum, and
\* kWays[S] = kWays[72 - S].
C5_Symmetry ==
    /\ pc = "build" =>
          \A i \in Sums : i < s => table[i + 1] = ways_for_sum(kMaxSum - i)
    /\ pc # "build" =>
          \A i \in Sums : kWays[i + 1] = kWays[kMaxSum - i + 1]

C5_Witness ==
    /\ pc = "idle"
    /\ kWays[11] = kWays[kMaxSum - 10 + 1]
    /\ kWays[11] # kWays[12]

\* C6: the 73 entries of kWays, the values of ways_for_sum over 0..72, add
\* up to 13^6 = 4826809.
C6_WaysAddUpToAllTuples ==
    pc # "build" =>
        /\ ZSum(kWays) = ZInt(kBase ^ kDigits)
        /\ ZSum(kWays) = ZInt(4826809)

C6_Witness == pc = "idle" /\ Len(kWays) = kMaxSum + 1 /\ ZSum(kWays) = ZInt(4826809)

\* C7: the table has 73 entries and holds ways_for_sum(S) at every S before
\* count_beautiful_numbers reads it; it never changes once built; every
\* call returns what the first call returned.
C7_TableBuilt ==
    /\ pc # "build" =>
        /\ Len(kWays) = kMaxSum + 1
        /\ \A i \in Sums : kWays[i + 1] = ways_for_sum(i)
    /\ pc = "build" => returned = <<>>
    /\ \A i \in 1..Len(returned) : returned[i] = returned[1]

C7_TableBuiltOnceAndCallsAgree ==
    /\ []C7_TableBuilt
    /\ [][pc # "build" => kWays' = kWays]_vars

C7_Witness == pc = "idle" /\ Len(returned) >= 2 /\ returned[2] = returned[1]

\* C8 as stated: the returned value v has 10^14 <= v < 10^15 and v < 2^63.
C8_OrderOfTenToThe14 ==
    \A i \in 1..Len(returned) :
        /\ ZLeq(ZPow(10, 14), returned[i])
        /\ ZLess(returned[i], ZPow(10, 15))
        /\ ZLess(returned[i], Int64Lim)

\* C8, amended: the returned value v has 10^12 <= v < 10^13 (it is
\* 9203637295151) and v is far below 2^63: 10^5 * v < 2^63.
C8_OrderOfTenToThe12 ==
    \A i \in 1..Len(returned) :
        /\ ZLeq(ZPow(10, 12), returned[i])
        /\ ZLess(returned[i], ZPow(10, 13))
        /\ ZLess(ZMul(ZPow(10, 5), returned[i]), Int64Lim)
        /\ returned[i] = Z(FALSE, <<5151, 3729, 2036, 9>>)

C8_Witness ==
    /\ pc = "idle" /\ Len(returned) >= 1
    /\ ZLess(returned[1], ZPow(10, 14))

\* C9: no int64_t overflow happens: not in the products of binomial_n_5 for
\* n in 5..77, not in the terms and partial results of ways_for_sum for S in
\* 0..72, not in the terms and partial totals of count_beautiful_numbers.
C9_NoOverflow ==
    /\ ~ub
    /\ FitsInt64(total)
    /\ \A i \in 1..Len(table) : FitsInt64(table[i])
    /\ \A i \in Sums : i < s /\ pc = "build" =>
          /\ ~ways_overflows(i)
          /\ ~binomial_overflows(i + 5)
    /\ pc = "count" /\ s \in Sums =>
          /\ FitsInt64(count_scaled(kWays[s + 1]))
          /\ FitsInt64(count_term(kWays[s + 1]))
          /\ FitsInt64(ZAdd(total, count_term(kWays[s + 1])))

C9_Witness ==
    /\ pc = "idle" /\ Len(returned) >= 1 /\ ~ub
    /\ ~binomial_overflows(kMaxSum + 5)
    /\ ZLess(ZPow(2, IntBits - 1), binomial_numerator(kMaxSum + 5))

\* the full sum of the seven terms for k = 0..6, no early exit
ways_full_sum(sum) ==
    ZSum(AsSeq([j \in 1..(kDigits + 1) |->
                   ZMul(ZInt(IF j % 2 = 1 THEN kBinom6[j] ELSE -kBinom6[j]),
                        binomial_n_5(sum - kBase * (j - 1) + 5))],
               kDigits + 1))

\* C10: the loop with the early exit returns the full seven-term sum for
\* every S; once the exit condition holds at a k it holds at every larger
\* k, and every term from there on is zero.
C10_EarlyExitIsOnlyAShortcut ==
    /\ pc = "ways_done" => result = ways_full_sum(sum_)
    /\ pc = "ways" /\ ways_loop_cond(k) /\ ways_break(sum_, k) =>
          \A j \in k..kDigits :
              /\ ways_arg(sum_, j) < 5
              /\ binomial_n_5(ways_arg(sum_, j)) = Zero

C10_Witness ==
    /\ pc = "ways_done" /\ sum_ \in Sums /\ k \in 1..kDigits
    /\ result # Zero /\ result = ways_full_sum(sum_)

=============================================================================
